---- MODULE Spec2Model ----
(***************************************************************************)
(* Triangle-mesh pipeline of iced_wgpu: the growable GPU buffer            *)
(* (triangle.rs, Buffer<T>), the MSAA resolver (triangle/msaa.rs, Blit and *)
(* Targets) and Pipeline::new / Pipeline::draw (triangle.rs).              *)
(*                                                                         *)
(* The device is modelled by what it allocates: device_buffers is the list *)
(* of every buffer created with create_buffer (a handle is the index of    *)
(* its allocation), device_textures the list of every texture created, and *)
(* live_textures the texture views that some Targets value still owns.     *)
(* A command encoder is the sequence of commands recorded into it.         *)
(***************************************************************************)
EXTENDS Integers, Sequences, FiniteSets, TLC

VARIABLES
    device_buffers,   \* every buffer the device allocated: [size, usage]
    device_textures,  \* every texture the device allocated: [width, height, sample_count]
    live_textures,    \* texture ids whose view is still owned
    uniforms_buffer,  \* Pipeline.uniforms_buffer : Buffer<Uniforms>
    vertex_buffer,    \* Pipeline.vertex_buffer   : Buffer<Vertex2D>
    index_buffer,     \* Pipeline.index_buffer    : Buffer<u32>
    constants,        \* Pipeline.constants       : the uniform bind group
    blit,             \* Pipeline.blit            : Option<msaa::Blit>
    encoder,          \* commands recorded by the last Pipeline::draw / Blit::draw
    args,             \* Option of the arguments of the last Pipeline::draw
    last_offsets,     \* the local offsets of the last Pipeline::draw, at its end
    buffer,           \* a Buffer<T> on its own (SpecBuffer)
    elem_size,        \* size_of::<T>() of that buffer
    requested,        \* every size asked of that buffer, construction first
    calls,            \* every call made on the Blit on its own (SpecBlit)
    ret,              \* Option of what the last Blit::targets returned
    panicked          \* an unwrap on None was reached

vars == <<device_buffers, device_textures, live_textures, uniforms_buffer,
          vertex_buffer, index_buffer, constants, blit, encoder, args,
          last_offsets, buffer, elem_size, requested, calls, ret, panicked>>

pipeline_vars == <<uniforms_buffer, vertex_buffer, index_buffer, constants>>
buffer_vars == <<buffer, elem_size, requested>>
blit_vars == <<calls, ret>>

(***************************************************************************)
(* Bounds of the model.                                                    *)
(***************************************************************************)
MaxSize == 3          \* sizes asked of the stand-alone buffer: 0..MaxSize
MaxCalls == 3         \* ensure_capacity calls on the stand-alone buffer
MaxTargets == 2       \* Targets values the pipeline's resolver allocates
MaxBlitCalls == 3     \* calls on the stand-alone Blit

(***************************************************************************)
(* Option<T>, integer casts and sizes.                                     *)
(***************************************************************************)
None == <<>>
Some(x) == <<x>>
Unwrap(o) == o[1]

\* usize as u32 keeps the low 32 bits.  Every value the model casts is a
\* non-negative integer of TLC, hence below 2^31 and unchanged by the cast.
AsU32(n) == n

Max(a, b) == IF a < b THEN b ELSE a

RECURSIVE SeqMax(_)
SeqMax(s) == IF Len(s) = 1 THEN s[1] ELSE Max(s[1], SeqMax(Tail(s)))

Last(s) == s[Len(s)]

SizeOfF32 == 4
SizeOfU32 == 4
\* Vertex2D: position Float2 at offset 0, color Float4 at offset 4 * 2
SizeOfVertex2D == 4 * 2 + 4 * SizeOfF32
\* struct Uniforms { transform: [f32; 16], _padding_a: [f32; 32], _padding_b: [f32; 16] }
SizeOfUniforms_Misaligned == (16 + 16 + 16) * SizeOfF32
SizeOfUniforms == (16 + 32 + 16) * SizeOfF32

UNIFORM_BUFFER_SIZE == 100
VERTEX_BUFFER_SIZE == 10000
INDEX_BUFFER_SIZE == 10000

(***************************************************************************)
(* Buffer<T>                                                               *)
(***************************************************************************)
\* device.create_buffer(&BufferDescriptor { size, usage, .. }): the new handle
\* is the index of the allocation.
create_buffer(device, size, usage) ==
    [device |-> Append(device, [size |-> size, usage |-> usage]),
     raw |-> Len(device) + 1]

\* Buffer::new(device, size, usage) for element size T
Buffer_new(device, size, usage, T) ==
    LET made == create_buffer(device, T * size, usage)
    IN  [device |-> made.device,
         self |-> [raw |-> made.raw, size |-> size, usage |-> usage]]

\* faulty variants of ensure_capacity
ensure_capacity_Always(self, device, size, T) ==
    LET made == create_buffer(device, T * size, self.usage)
    IN  [device |-> made.device,
         self |-> [self EXCEPT !.raw = made.raw, !.size = size]]

ensure_capacity_OrEqual(self, device, size, T) ==
    IF self.size <= size
    THEN LET made == create_buffer(device, T * size, self.usage)
         IN  [device |-> made.device,
              self |-> [self EXCEPT !.raw = made.raw, !.size = size]]
    ELSE [device |-> device, self |-> self]

ensure_capacity_KeepRaw(self, device, size, T) ==
    IF self.size < size
    THEN LET made == create_buffer(device, T * size, self.usage)
         IN  [device |-> made.device,
              self |-> [self EXCEPT !.size = size]]
    ELSE [device |-> device, self |-> self]

\* Buffer::ensure_capacity(&mut self, device, size)
ensure_capacity(self, device, size, T) ==
    IF self.size < size
    THEN LET made == create_buffer(device, T * size, self.usage)
         IN  [device |-> made.device,
              self |-> [self EXCEPT !.raw = made.raw, !.size = size]]
    ELSE [device |-> device, self |-> self]

(***************************************************************************)
(* msaa::Targets and msaa::Blit                                            *)
(***************************************************************************)
\* device.create_texture(&TextureDescriptor { size, sample_count, .. })
create_texture(device, width, height, sample_count) ==
    [device |-> Append(device, [width |-> width, height |-> height,
                                sample_count |-> sample_count]),
     texture |-> Len(device) + 1]

\* texture.create_default_view()
create_default_view(texture) == [texture |-> texture]

\* Targets::new(device, format, texture_layout, sample_count, width, height)
Targets_new(device, sample_count, width, height) ==
    LET a == create_texture(device, width, height, sample_count)
        r == create_texture(a.device, width, height, 1)
        attachment == create_default_view(a.texture)
        resolve == create_default_view(r.texture)
    IN  [device |-> r.device,
         self |-> [attachment |-> attachment,
                   resolve |-> resolve,
                   bind_group |-> [layout |-> "texture_layout",
                                   resource |-> resolve],
                   width |-> width,
                   height |-> height]]

\* the texture views a Targets value owns (dropped with it)
Owned(targets) ==
    IF targets = None THEN {}
    ELSE {Unwrap(targets).attachment.texture, Unwrap(targets).resolve.texture}

\* Blit::new(device, format, antialiasing)
Blit_new(sample_count) ==
    [pipeline |-> "blit",
     constants |-> [layout |-> "constant_layout", resource |-> "sampler"],
     sample_count |-> sample_count,
     targets |-> None]

\* the size test of Blit::targets
SizeDiffers_WidthOnly(targets, width, height) ==
    targets.width # width

SizeDiffers(targets, width, height) ==
    targets.width # width \/ targets.height # height

\* a faulty variant of Blit_targets: a replacing Targets takes over the bind
\* group of the Targets it replaces
Blit_targets_KeepBindGroup(self, device, live, width, height) ==
    LET fresh == Targets_new(device, self.sample_count, width, height)
        made == IF self.targets = None THEN fresh.self
                ELSE [fresh.self EXCEPT
                         !.bind_group = Unwrap(self.targets).bind_group]
        replace == [self |-> [self EXCEPT !.targets = Some(made)],
                    device |-> fresh.device,
                    live |-> (live \ Owned(self.targets)) \cup Owned(Some(made))]
        keep == [self |-> self, device |-> device, live |-> live]
        after == IF self.targets = None THEN replace
                 ELSE IF SizeDiffers(Unwrap(self.targets), width, height)
                      THEN replace
                      ELSE keep
        targets == Unwrap(after.self.targets)
    IN  [self |-> after.self, device |-> after.device, live |-> after.live,
         ret |-> <<targets.attachment, targets.resolve>>]

\* Blit::targets(&mut self, device, width, height); assigning self.targets
\* drops the Targets it held.
Blit_targets(self, device, live, width, height) ==
    LET fresh == Targets_new(device, self.sample_count, width, height)
        replace == [self |-> [self EXCEPT !.targets = Some(fresh.self)],
                    device |-> fresh.device,
                    live |-> (live \ Owned(self.targets)) \cup Owned(Some(fresh.self))]
        keep == [self |-> self, device |-> device, live |-> live]
        after == IF self.targets = None THEN replace
                 ELSE IF SizeDiffers(Unwrap(self.targets), width, height)
                      THEN replace
                      ELSE keep
        targets == Unwrap(after.self.targets)
    IN  [self |-> after.self, device |-> after.device, live |-> after.live,
         ret |-> <<targets.attachment, targets.resolve>>]

\* the caller's target view
TargetView == [texture |-> 0]

\* Blit::draw(&self, encoder, target): the commands appended to the encoder;
\* self.targets.as_ref().unwrap() panics on None.
Blit_draw(self, cmds, target) ==
    LET begun == cmds \o
            << [op |-> "begin_render_pass", attachment |-> target,
                resolve_target |-> None, load_op |-> "Load"],
               [op |-> "set_pipeline", pipeline |-> self.pipeline],
               [op |-> "set_bind_group", index |-> 0,
                bind_group |-> self.constants, offsets |-> <<>>] >>
    IN  IF self.targets = None
        THEN [cmds |-> begun, panicked |-> TRUE]
        ELSE [cmds |-> begun \o
                << [op |-> "set_bind_group", index |-> 1,
                    bind_group |-> Unwrap(self.targets).bind_group,
                    offsets |-> <<>>],
                   [op |-> "draw", vertices |-> 6, instances |-> 1],
                   [op |-> "end_render_pass"] >>,
              panicked |-> FALSE]

(***************************************************************************)
(* Inputs of Pipeline::draw                                                *)
(***************************************************************************)
\* Rectangle<f32> * f32 with the factor a fraction num / den; the fields stay
\* fractions over den.
Rectangle_mul(r, s) ==
    [x |-> r.x * s.num, y |-> r.y * s.num,
     width |-> r.width * s.num, height |-> r.height * s.num,
     den |-> s.den]

\* f32 as u32: truncates towards zero and saturates at 0 (and at u32::MAX,
\* which no fraction of the model reaches)
F32AsU32(num, den) ==
    IF num < 0 THEN 0 ELSE num \div den

\* Rectangle<f32>::snap() -> Rectangle<u32>
Rectangle_snap(r) ==
    [x |-> F32AsU32(r.x, r.den), y |-> F32AsU32(r.y, r.den),
     width |-> F32AsU32(r.width, r.den), height |-> F32AsU32(r.height, r.den)]

\* Transformation * Transformation, kept symbolic
Transformation_mul(a, b) == <<a, b>>
Transformation_translate(x, y) == [translate |-> <<x, y>>]

\* layer::Mesh: origin, buffers (vertices and indices by their lengths), clip_bounds
Mesh(ox, oy, nv, ni, cx, cy, cw, ch) ==
    [origin |-> [x |-> ox, y |-> oy],
     buffers |-> [vertices |-> nv, indices |-> ni],
     clip_bounds |-> [x |-> cx, y |-> cy, width |-> cw, height |-> ch]]

\* the meshes drawn: three small ones, the third clipped outside an 800 x 600
\* target, and one whose vertices and indices are more than half the initial
\* capacities
MeshA == Mesh(0, 0, 3, 3, 0, 0, 800, 600)
MeshB == Mesh(10, 20, 4, 6, 5, 5, 101, 51)
MeshC == Mesh(30, 40, 5, 9, 900, 700, 50, 50)
MeshBig == Mesh(0, 0, 6000, 7000, -10, -10, 31, 31)

Repeat(x, n) == [i \in 1..n |-> x]

\* the mesh lists drawn: none, one, several, lists whose totals exceed the
\* initial vertex and index capacities, and a list longer than the initial
\* uniform capacity
MeshLists ==
    { <<>>,
      <<MeshA>>,
      <<MeshB, MeshA>>,
      <<MeshA, MeshB, MeshC>>,
      <<MeshBig, MeshBig>>,
      <<MeshBig, MeshB, MeshBig>>,
      Repeat(MeshA, UNIFORM_BUFFER_SIZE + 1) }

TargetSizes == {<<800, 600>>, <<801, 600>>}
ScaleFactors == {[num |-> 1, den |-> 1], [num |-> 3, den |-> 2]}
Transformations == {"projection"}
SampleCounts == {2, 4}

(***************************************************************************)
(* Pipeline                                                                *)
(***************************************************************************)
\* Pipeline::new(device, format, antialiasing): antialiasing is an Option of a
\* sample count.
Pipeline_new(device, antialiasing) ==
    LET constants_buffer ==
            Buffer_new(device, UNIFORM_BUFFER_SIZE, {"UNIFORM", "COPY_DST"},
                       SizeOfUniforms)
        constant_bind_group ==
            [layout |-> "constant_layout",
             resource |-> [buffer |-> constants_buffer.self.raw,
                           offset |-> 0,
                           size |-> SizeOfUniforms]]
        vb == Buffer_new(constants_buffer.device, VERTEX_BUFFER_SIZE,
                         {"VERTEX", "COPY_DST"}, SizeOfVertex2D)
        ib == Buffer_new(vb.device, INDEX_BUFFER_SIZE,
                         {"INDEX", "COPY_DST"}, SizeOfU32)
    IN  [device |-> ib.device,
         self |-> [pipeline |-> "triangle",
                   blit |-> IF antialiasing = None THEN None
                            ELSE Some(Blit_new(Unwrap(antialiasing))),
                   constants |-> constant_bind_group,
                   uniforms_buffer |-> constants_buffer.self,
                   vertex_buffer |-> vb.self,
                   index_buffer |-> ib.self]]

\* a faulty variant of draw_totals: the fold keeps (v, i) of the mesh at hand
\* in place of the running sums
draw_totals_NoSum(meshes, hi, acc) ==
    IF acc.k >= hi THEN acc
    ELSE [k |-> hi,
          v |-> meshes[hi].buffers.vertices,
          i |-> meshes[hi].buffers.indices]

\* the fold of Pipeline::draw, (total_v + v, total_i + i) mesh after mesh,
\* run from the state acc (k meshes folded so far) until hi meshes are folded.
\* The run is made in two halves, one after the other, which keeps the
\* evaluation shallow.
RECURSIVE draw_totals(_, _, _)
draw_totals(meshes, hi, acc) ==
    IF acc.k >= hi THEN acc
    ELSE IF acc.k + 1 = hi
    THEN [k |-> hi,
          v |-> acc.v + meshes[hi].buffers.vertices,
          i |-> acc.i + meshes[hi].buffers.indices]
    ELSE draw_totals(meshes, hi,
                     draw_totals(meshes, (acc.k + hi) \div 2, acc))

\* the three ensure_capacity calls of Pipeline::draw
draw_ensure(self, device, meshes) ==
    LET total == draw_totals(meshes, Len(meshes), [k |-> 0, v |-> 0, i |-> 0])
        u == ensure_capacity(self.uniforms_buffer, device, Len(meshes),
                             SizeOfUniforms)
        v == ensure_capacity(self.vertex_buffer, u.device, total.v,
                             SizeOfVertex2D)
        i == ensure_capacity(self.index_buffer, v.device, total.i, SizeOfU32)
    IN  [device |-> i.device,
         self |-> [self EXCEPT !.uniforms_buffer = u.self,
                               !.vertex_buffer = v.self,
                               !.index_buffer = i.self]]

\* device.create_buffer_with_data(data, BufferUsage::COPY_SRC): a staging
\* buffer, known by what it holds
create_buffer_with_data(data, size) ==
    [data |-> data, size |-> size, usage |-> {"COPY_SRC"}]

copy_buffer_to_buffer(src, src_offset, dst, dst_offset, size) ==
    [op |-> "copy_buffer_to_buffer", src |-> src, src_offset |-> src_offset,
     dst |-> dst, dst_offset |-> dst_offset, size |-> size]

\* the two copies of one iteration of the upload loop; k is the position of
\* the mesh in the list, from 1
upload_copies(self, acc, mesh, k) ==
    LET vertex_buffer_k ==
            create_buffer_with_data(<<"vertices", k>>,
                                    SizeOfVertex2D * mesh.buffers.vertices)
        index_buffer_k ==
            create_buffer_with_data(<<"indices", k>>,
                                    SizeOfU32 * mesh.buffers.indices)
    IN  << copy_buffer_to_buffer(vertex_buffer_k, 0, self.vertex_buffer.raw,
                                 SizeOfVertex2D * acc.last_vertex,
                                 SizeOfVertex2D * mesh.buffers.vertices),
           copy_buffer_to_buffer(index_buffer_k, 0, self.index_buffer.raw,
                                 SizeOfU32 * acc.last_index,
                                 SizeOfU32 * mesh.buffers.indices) >>

\* a faulty variant of upload_record: the running sums are advanced before
\* the triple is pushed
upload_record_AdvanceFirst(acc, mesh, transform) ==
    [uniforms |-> Append(acc.uniforms, [transform |-> transform]),
     offsets |-> Append(acc.offsets,
                        <<acc.last_vertex + mesh.buffers.vertices,
                          acc.last_index + mesh.buffers.indices,
                          mesh.buffers.indices>>),
     last_vertex |-> acc.last_vertex + mesh.buffers.vertices,
     last_index |-> acc.last_index + mesh.buffers.indices]

\* the end of one iteration of the upload loop: push the uniform and the
\* (vertex_offset, index_offset, index_count) triple, advance the running sums
upload_record(acc, mesh, transform) ==
    [uniforms |-> Append(acc.uniforms, [transform |-> transform]),
     offsets |-> Append(acc.offsets,
                        <<acc.last_vertex, acc.last_index,
                          mesh.buffers.indices>>),
     last_vertex |-> acc.last_vertex + mesh.buffers.vertices,
     last_index |-> acc.last_index + mesh.buffers.indices]

\* one iteration of the upload loop of Pipeline::draw, on mesh k (from 1)
upload_mesh(self, transformation, meshes, k, acc) ==
    LET mesh == meshes[k]
        transform ==
            Transformation_mul(transformation,
                Transformation_translate(mesh.origin.x, mesh.origin.y))
        rec == upload_record(acc, mesh, transform)
    IN  [cmds |-> acc.cmds \o upload_copies(self, acc, mesh, k),
         uniforms |-> rec.uniforms,
         offsets |-> rec.offsets,
         last_vertex |-> rec.last_vertex,
         last_index |-> rec.last_index]

\* the upload loop of Pipeline::draw, for mesh in meshes { .. }, run from the
\* loop state acc (Len(acc.offsets) iterations done) until hi iterations are
\* done; in two halves, one after the other
RECURSIVE draw_upload(_, _, _, _, _)
draw_upload(self, transformation, meshes, hi, acc) ==
    IF Len(acc.offsets) >= hi THEN acc
    ELSE IF Len(acc.offsets) + 1 = hi
    THEN upload_mesh(self, transformation, meshes, hi, acc)
    ELSE draw_upload(self, transformation, meshes, hi,
             draw_upload(self, transformation, meshes,
                         (Len(acc.offsets) + hi) \div 2, acc))

\* the one copy of all the uniforms into the persistent uniform buffer
draw_uniforms(self, cmds, uniforms) ==
    LET uniforms_buffer_all ==
            create_buffer_with_data(<<"uniforms", uniforms>>,
                                    SizeOfUniforms * Len(uniforms))
    IN  Append(cmds,
               copy_buffer_to_buffer(uniforms_buffer_all, 0,
                                     self.uniforms_buffer.raw, 0,
                                     SizeOfUniforms * Len(uniforms)))

\* faulty variants of draw_mesh
draw_mesh_UnscaledClip(self, meshes, scale_factor, i, offset) ==
    LET clip_bounds ==
            Rectangle_snap(Rectangle_mul(meshes[i + 1].clip_bounds,
                                         [num |-> 1, den |-> 1]))
    IN  << [op |-> "set_scissor_rect", x |-> clip_bounds.x, y |-> clip_bounds.y,
            width |-> clip_bounds.width, height |-> clip_bounds.height],
           [op |-> "set_bind_group", index |-> 0, bind_group |-> self.constants,
            offsets |-> <<AsU32(SizeOfUniforms * i)>>],
           [op |-> "set_index_buffer", buffer |-> self.index_buffer.raw,
            offset |-> offset[2] * SizeOfU32],
           [op |-> "set_vertex_buffer", slot |-> 0,
            buffer |-> self.vertex_buffer.raw,
            offset |-> offset[1] * SizeOfVertex2D],
           [op |-> "draw_indexed", indices |-> <<0, AsU32(offset[3])>>,
            base_vertex |-> 0, instances |-> <<0, 1>>] >>

draw_mesh_ScissorAtOrigin(self, meshes, scale_factor, i, offset) ==
    LET clip_bounds ==
            Rectangle_snap(Rectangle_mul(meshes[i + 1].clip_bounds,
                                         scale_factor))
    IN  << [op |-> "set_scissor_rect", x |-> 0, y |-> 0,
            width |-> clip_bounds.width, height |-> clip_bounds.height],
           [op |-> "set_bind_group", index |-> 0, bind_group |-> self.constants,
            offsets |-> <<AsU32(SizeOfUniforms * i)>>],
           [op |-> "set_index_buffer", buffer |-> self.index_buffer.raw,
            offset |-> offset[2] * SizeOfU32],
           [op |-> "set_vertex_buffer", slot |-> 0,
            buffer |-> self.vertex_buffer.raw,
            offset |-> offset[1] * SizeOfVertex2D],
           [op |-> "draw_indexed", indices |-> <<0, AsU32(offset[3])>>,
            base_vertex |-> 0, instances |-> <<0, 1>>] >>

\* one iteration of the draw loop, i from 0, offset the triple recorded for
\* mesh i: the commands recorded in the render pass
draw_mesh(self, meshes, scale_factor, i, offset) ==
    LET clip_bounds ==
            Rectangle_snap(Rectangle_mul(meshes[i + 1].clip_bounds,
                                         scale_factor))
    IN  << [op |-> "set_scissor_rect", x |-> clip_bounds.x, y |-> clip_bounds.y,
            width |-> clip_bounds.width, height |-> clip_bounds.height],
           [op |-> "set_bind_group", index |-> 0, bind_group |-> self.constants,
            offsets |-> <<AsU32(SizeOfUniforms * i)>>],
           [op |-> "set_index_buffer", buffer |-> self.index_buffer.raw,
            offset |-> offset[2] * SizeOfU32],
           [op |-> "set_vertex_buffer", slot |-> 0,
            buffer |-> self.vertex_buffer.raw,
            offset |-> offset[1] * SizeOfVertex2D],
           [op |-> "draw_indexed", indices |-> <<0, AsU32(offset[3])>>,
            base_vertex |-> 0, instances |-> <<0, 1>>] >>

\* for (i, (vertex_offset, index_offset, indices)) in offsets.into_iter().enumerate():
\* the commands of the iterations lo..hi in order (walked in two halves)
RECURSIVE draw_loop(_, _, _, _, _, _)
draw_loop(self, meshes, scale_factor, offsets, lo, hi) ==
    IF lo > hi THEN <<>>
    ELSE IF lo = hi
    THEN draw_mesh(self, meshes, scale_factor, lo, offsets[lo + 1])
    ELSE LET mid == (lo + hi) \div 2
         IN  draw_loop(self, meshes, scale_factor, offsets, lo, mid)
                 \o draw_loop(self, meshes, scale_factor, offsets, mid + 1, hi)

\* the render pass of Pipeline::draw on the chosen attachment; the pass ends
\* where render_pass goes out of scope
draw_pass(self, cmds, color, meshes, scale_factor, offsets) ==
    LET begun == cmds \o
            << [op |-> "begin_render_pass", attachment |-> color.attachment,
                resolve_target |-> color.resolve_target,
                load_op |-> color.load_op],
               [op |-> "set_pipeline", pipeline |-> self.pipeline] >>
    IN  begun \o draw_loop(self, meshes, scale_factor, offsets, 0,
                           Len(offsets) - 1)
              \o << [op |-> "end_render_pass"] >>

\* a faulty variant of draw_attachment: the multisampled attachment is loaded,
\* not cleared
draw_attachment_NoClear(blit_, views, target) ==
    IF blit_ # None
    THEN [attachment |-> views[1], resolve_target |-> Some(views[2]),
          load_op |-> "Load"]
    ELSE [attachment |-> target, resolve_target |-> None, load_op |-> "Load"]

\* (attachment, resolve_target, load_op) of the render pass of Pipeline::draw;
\* views is what blit.targets returned
draw_attachment(blit_, views, target) ==
    IF blit_ # None
    THEN [attachment |-> views[1], resolve_target |-> Some(views[2]),
          load_op |-> "Clear"]
    ELSE [attachment |-> target, resolve_target |-> None, load_op |-> "Load"]

\* a faulty variant of Pipeline_draw: the uniforms are copied after the render
\* pass was recorded
Pipeline_draw_LateUniforms(self, device, textures, live, cmds, target, target_width, target_height, transformation, scale_factor, meshes) ==
    LET ensured == draw_ensure(self, device, meshes)
        sized == ensured.self
        up == draw_upload(sized, transformation, meshes, Len(meshes),
                          [cmds |-> cmds, uniforms |-> <<>>, offsets |-> <<>>,
                           last_vertex |-> 0, last_index |-> 0])
        got == IF sized.blit # None
               THEN Blit_targets(Unwrap(sized.blit), textures, live,
                                 target_width, target_height)
               ELSE [self |-> None, device |-> textures, live |-> live,
                     ret |-> None]
        after == IF sized.blit # None
                 THEN [sized EXCEPT !.blit = Some(got.self)]
                 ELSE sized
        color == draw_attachment(sized.blit, got.ret, target)
        passed == draw_uniforms(sized,
                      draw_pass(after, up.cmds, color, meshes, scale_factor,
                                up.offsets),
                      up.uniforms)
        composed == IF after.blit # None
                    THEN Blit_draw(Unwrap(after.blit), passed, target)
                    ELSE [cmds |-> passed, panicked |-> FALSE]
    IN  [self |-> after, device |-> ensured.device, textures |-> got.device,
         live |-> got.live, cmds |-> composed.cmds, offsets |-> up.offsets,
         panicked |-> composed.panicked]

\* a faulty variant of Pipeline_draw: Blit::draw is called first, on the Blit
\* as it is before the Blit::targets call of this draw
Pipeline_draw_BlitDrawFirst(self, device, textures, live, cmds, target, target_width, target_height, transformation, scale_factor, meshes) ==
    LET ensured == draw_ensure(self, device, meshes)
        sized == ensured.self
        up == draw_upload(sized, transformation, meshes, Len(meshes),
                          [cmds |-> cmds, uniforms |-> <<>>, offsets |-> <<>>,
                           last_vertex |-> 0, last_index |-> 0])
        uploaded == draw_uniforms(sized, up.cmds, up.uniforms)
        composed == IF sized.blit # None
                    THEN Blit_draw(Unwrap(sized.blit), uploaded, target)
                    ELSE [cmds |-> uploaded, panicked |-> FALSE]
        got == IF sized.blit # None
               THEN Blit_targets(Unwrap(sized.blit), textures, live,
                                 target_width, target_height)
               ELSE [self |-> None, device |-> textures, live |-> live,
                     ret |-> None]
        after == IF sized.blit # None
                 THEN [sized EXCEPT !.blit = Some(got.self)]
                 ELSE sized
        color == draw_attachment(sized.blit, got.ret, target)
        passed == IF composed.panicked THEN composed.cmds
                  ELSE draw_pass(after, composed.cmds, color, meshes,
                                 scale_factor, up.offsets)
    IN  [self |-> after, device |-> ensured.device, textures |-> got.device,
         live |-> got.live, cmds |-> passed, offsets |-> up.offsets,
         panicked |-> composed.panicked]

\* Pipeline::draw(&mut self, device, encoder, target, target_width,
\* target_height, transformation, scale_factor, meshes): cmds is the encoder
Pipeline_draw(self, device, textures, live, cmds, target, target_width, target_height, transformation, scale_factor, meshes) ==
    LET ensured == draw_ensure(self, device, meshes)
        sized == ensured.self
        up == draw_upload(sized, transformation, meshes, Len(meshes),
                          [cmds |-> cmds, uniforms |-> <<>>, offsets |-> <<>>,
                           last_vertex |-> 0, last_index |-> 0])
        uploaded == draw_uniforms(sized, up.cmds, up.uniforms)
        got == IF sized.blit # None
               THEN Blit_targets(Unwrap(sized.blit), textures, live,
                                 target_width, target_height)
               ELSE [self |-> None, device |-> textures, live |-> live,
                     ret |-> None]
        after == IF sized.blit # None
                 THEN [sized EXCEPT !.blit = Some(got.self)]
                 ELSE sized
        color == draw_attachment(sized.blit, got.ret, target)
        passed == draw_pass(after, uploaded, color, meshes, scale_factor,
                            up.offsets)
        composed == IF after.blit # None
                    THEN Blit_draw(Unwrap(after.blit), passed, target)
                    ELSE [cmds |-> passed, panicked |-> FALSE]
    IN  [self |-> after, device |-> ensured.device, textures |-> got.device,
         live |-> got.live, cmds |-> composed.cmds, offsets |-> up.offsets,
         panicked |-> composed.panicked]

(***************************************************************************)
(* Spec: a pipeline is constructed, then Pipeline::draw is called with any *)
(* arguments, each call recording into a new encoder.                      *)
(***************************************************************************)
Self ==
    [pipeline |-> "triangle", blit |-> blit, constants |-> constants,
     uniforms_buffer |-> uniforms_buffer, vertex_buffer |-> vertex_buffer,
     index_buffer |-> index_buffer]

Idle ==
    /\ buffer = None
    /\ elem_size = 0
    /\ requested = <<>>
    /\ calls = <<>>
    /\ ret = None

Init ==
    \E antialiasing \in {None} \cup {Some(n) : n \in SampleCounts} :
        LET made == Pipeline_new(<<>>, antialiasing)
        IN  /\ device_buffers = made.device
            /\ device_textures = <<>>
            /\ live_textures = {}
            /\ uniforms_buffer = made.self.uniforms_buffer
            /\ vertex_buffer = made.self.vertex_buffer
            /\ index_buffer = made.self.index_buffer
            /\ constants = made.self.constants
            /\ blit = made.self.blit
            /\ encoder = <<>>
            /\ args = None
            /\ last_offsets = <<>>
            /\ panicked = FALSE
            /\ Idle

Draw ==
    \E meshes \in MeshLists, size \in TargetSizes,
       scale_factor \in ScaleFactors, transformation \in Transformations :
        /\ ~panicked
        /\ Len(device_textures) < 2 * MaxTargets
        /\ \E done \in {Pipeline_draw(Self, device_buffers, device_textures,
                                       live_textures, <<>>, TargetView,
                                       size[1], size[2], transformation,
                                       scale_factor, meshes)} :
               /\ device_buffers' = done.device
               /\ device_textures' = done.textures
               /\ live_textures' = done.live
               /\ uniforms_buffer' = done.self.uniforms_buffer
               /\ vertex_buffer' = done.self.vertex_buffer
               /\ index_buffer' = done.self.index_buffer
               /\ constants' = done.self.constants
               /\ blit' = done.self.blit
               /\ encoder' = done.cmds
               /\ panicked' = done.panicked
               /\ last_offsets' = done.offsets
               /\ args' = Some([meshes |-> meshes, target_width |-> size[1],
                                target_height |-> size[2],
                                transformation |-> transformation,
                                scale_factor |-> scale_factor])
        /\ UNCHANGED <<buffer_vars, blit_vars>>

Next == Draw

Spec == Init /\ [][Next]_vars

(***************************************************************************)
(* SpecBuffer: a Buffer<T> is constructed, then ensure_capacity is called  *)
(* with any sizes.                                                         *)
(***************************************************************************)
ElemSizes == {SizeOfU32, SizeOfVertex2D, SizeOfUniforms}
Usages == {{"VERTEX", "COPY_DST"}, {"UNIFORM", "COPY_DST"}}

NoPipeline ==
    /\ uniforms_buffer = None
    /\ vertex_buffer = None
    /\ index_buffer = None
    /\ constants = None
    /\ args = None
    /\ last_offsets = <<>>
    /\ encoder = <<>>
    /\ panicked = FALSE

InitBuffer ==
    \E size \in 0..MaxSize, T \in ElemSizes, usage \in Usages :
        LET made == Buffer_new(<<>>, size, usage, T)
        IN  /\ device_buffers = made.device
            /\ buffer = Some(made.self)
            /\ elem_size = T
            /\ requested = <<size>>
            /\ device_textures = <<>>
            /\ live_textures = {}
            /\ blit = None
            /\ calls = <<>>
            /\ ret = None
            /\ NoPipeline

EnsureCapacity ==
    \E size \in 0..MaxSize :
        /\ Len(requested) <= MaxCalls
        /\ \E done \in {ensure_capacity(Unwrap(buffer), device_buffers, size,
                                        elem_size)} :
              /\ buffer' = Some(done.self)
              /\ device_buffers' = done.device
        /\ requested' = Append(requested, size)
        /\ UNCHANGED <<device_textures, live_textures, pipeline_vars, blit,
                       encoder, args, last_offsets, elem_size, blit_vars,
                       panicked>>

NextBuffer == EnsureCapacity

SpecBuffer == InitBuffer /\ [][NextBuffer]_vars

(***************************************************************************)
(* SpecBlit: a Blit is constructed, then targets and draw are called in    *)
(* any order with any sizes.                                               *)
(***************************************************************************)
Widths == {800, 801}
Heights == {600, 601}

InitBlit ==
    \E sample_count \in SampleCounts :
        /\ blit = Some(Blit_new(sample_count))
        /\ device_textures = <<>>
        /\ live_textures = {}
        /\ calls = <<>>
        /\ ret = None
        /\ device_buffers = <<>>
        /\ buffer = None
        /\ elem_size = 0
        /\ requested = <<>>
        /\ NoPipeline

BlitTargets ==
    \E width \in Widths, height \in Heights :
        /\ ~panicked
        /\ Len(calls) < MaxBlitCalls
        /\ \E done \in {Blit_targets(Unwrap(blit), device_textures,
                                     live_textures, width, height)} :
              /\ blit' = Some(done.self)
              /\ device_textures' = done.device
              /\ live_textures' = done.live
              /\ ret' = Some(done.ret)
        /\ calls' = Append(calls, [op |-> "targets", width |-> width,
                                   height |-> height])
        /\ UNCHANGED <<device_buffers, pipeline_vars, encoder, args, last_offsets,
                       buffer_vars, panicked>>

BlitDraw ==
    /\ ~panicked
    /\ Len(calls) < MaxBlitCalls
    /\ \E done \in {Blit_draw(Unwrap(blit), <<>>, TargetView)} :
          /\ encoder' = done.cmds
          /\ panicked' = done.panicked
    /\ calls' = Append(calls, [op |-> "draw"])
    /\ UNCHANGED <<device_buffers, device_textures, live_textures,
                   pipeline_vars, blit, args, last_offsets, buffer_vars, ret>>

NextBlit == BlitTargets \/ BlitDraw

SpecBlit == InitBlit /\ [][NextBlit]_vars

(***************************************************************************)
(* Properties of Buffer<T>                                                 *)
(***************************************************************************)
\* C5: after any sequence of ensure_capacity calls the capacity of the buffer
\* is the largest size asked so far, the size given to Buffer::new included
\* (so it never decreases).
C5_CapacityIsMaxRequested ==
    buffer # None => Unwrap(buffer).size = SeqMax(requested)

\* C5 witness: a larger size was asked and then a smaller one, and the
\* capacity is the larger.
C5_Witness ==
    /\ buffer # None
    /\ Len(requested) = 3
    /\ requested[1] < requested[2]
    /\ requested[3] < requested[2]
    /\ Unwrap(buffer).size = requested[2]

\* C6: ensure_capacity(n) with n <= capacity allocates nothing and leaves the
\* handle, the capacity and the usage as they were; with n > capacity it
\* allocates exactly one buffer, of the same usage, and takes its handle.
C6_NoOpUnlessLarger ==
    [][Len(requested') = Len(requested) + 1 =>
        LET n == Last(requested')
            old == Unwrap(buffer)
            new == Unwrap(buffer')
        IN  IF n <= old.size
            THEN /\ new = old
                 /\ device_buffers' = device_buffers
            ELSE /\ Len(device_buffers') = Len(device_buffers) + 1
                 /\ new.raw = Len(device_buffers')
                 /\ new.raw # old.raw
                 /\ new.size = n
                 /\ new.usage = old.usage
                 /\ Last(device_buffers').usage = old.usage]_vars

\* C6 witness: the same size was asked twice in a row after a growth, and
\* only the first of the two calls allocated.
C6_Witness ==
    /\ buffer # None
    /\ Len(requested) = 3
    /\ requested[1] < requested[2]
    /\ requested[3] = requested[2]
    /\ Len(device_buffers) = 2
    /\ Unwrap(buffer).raw = 2

\* C10: the device buffer held is always at least capacity * size_of(T)
\* bytes, and a call changes the handle exactly when it changes the capacity.
C10_RawHoldsCapacity ==
    /\ [](buffer # None =>
            /\ Unwrap(buffer).raw \in 1..Len(device_buffers)
            /\ device_buffers[Unwrap(buffer).raw].size
                   >= Unwrap(buffer).size * elem_size)
    /\ [][Len(requested') = Len(requested) + 1 =>
            (Unwrap(buffer').raw # Unwrap(buffer).raw
                <=> Unwrap(buffer').size # Unwrap(buffer).size)]_vars

\* C10 witness: the buffer grew twice and holds the third allocation, which
\* is as large as its capacity asks.
C10_Witness ==
    /\ buffer # None
    /\ Len(device_buffers) = 3
    /\ Unwrap(buffer).raw = 3
    /\ Unwrap(buffer).size > 0
    /\ device_buffers[3].size = Unwrap(buffer).size * elem_size

(***************************************************************************)
(* Properties of msaa::Blit                                                *)
(***************************************************************************)
\* C7: Blit::targets is a one-entry cache keyed by (width, height).  The views
\* owned are always exactly those of the one Targets held.  A call with the
\* size held allocates nothing and returns the views held; a call with
\* another width or height (or the first call) allocates a new attachment and
\* resolve texture of that size, returns their views, and the old pair is no
\* longer owned.
C7_OneEntryCache ==
    /\ [](blit # None =>
            /\ live_textures = Owned(Unwrap(blit).targets)
            /\ Cardinality(live_textures) <= 2)
    /\ [][(Len(calls') = Len(calls) + 1 /\ Last(calls').op = "targets") =>
            LET call == Last(calls')
                old == Unwrap(blit).targets
                new == Unwrap(Unwrap(blit').targets)
            IN  IF /\ old # None
                   /\ Unwrap(old).width = call.width
                   /\ Unwrap(old).height = call.height
                THEN /\ device_textures' = device_textures
                     /\ new = Unwrap(old)
                     /\ ret' = Some(<<new.attachment, new.resolve>>)
                     /\ ret # None => ret' = ret
                ELSE /\ Len(device_textures') = Len(device_textures) + 2
                     /\ new.attachment.texture > Len(device_textures)
                     /\ new.resolve.texture > Len(device_textures)
                     /\ new.attachment # new.resolve
                     /\ new.width = call.width
                     /\ new.height = call.height
                     /\ device_textures'[new.attachment.texture].width = call.width
                     /\ device_textures'[new.attachment.texture].height = call.height
                     /\ device_textures'[new.resolve.texture].width = call.width
                     /\ device_textures'[new.resolve.texture].height = call.height
                     /\ ret' = Some(<<new.attachment, new.resolve>>)
                     /\ ret # None => /\ Unwrap(ret')[1] # Unwrap(ret)[1]
                                      /\ Unwrap(ret')[2] # Unwrap(ret)[2]
                     /\ live_textures' = {new.attachment.texture,
                                          new.resolve.texture}
                     /\ Owned(old) \cap live_textures' = {}]_vars

\* C7 witness: targets was called twice with one size and then with another
\* height; the second pair of textures is the one owned.
C7_Witness ==
    /\ Len(calls) = 3
    /\ calls[1] = [op |-> "targets", width |-> 800, height |-> 600]
    /\ calls[2] = calls[1]
    /\ calls[3] = [op |-> "targets", width |-> 800, height |-> 601]
    /\ Len(device_textures) = 4
    /\ live_textures = {3, 4}
    /\ ret = Some(<<[texture |-> 3], [texture |-> 4]>>)

(***************************************************************************)
(* Properties of Pipeline::draw, read off the commands it recorded         *)
(***************************************************************************)
Positions(op) == {k \in 1..Len(encoder) : encoder[k].op = op}

Tagged == [k \in 1..Len(encoder) |-> [pos |-> k, op |-> encoder[k].op]]
IsDrawIndexed(t) == t.op = "draw_indexed"
IsBegin(t) == t.op = "begin_render_pass"
IsEnd(t) == t.op = "end_render_pass"

\* the positions of the draw_indexed commands, of the begin_render_pass
\* commands and of the ends of passes, each in recording order
DrawCalls == SelectSeq(Tagged, IsDrawIndexed)
Begins == SelectSeq(Tagged, IsBegin)
Ends == SelectSeq(Tagged, IsEnd)

\* the commands recorded after position from and before position to
Between(from, to) == {encoder[j] : j \in (from + 1)..(to - 1)}

RECURSIVE SumVertices(_, _, _)
SumVertices(meshes, lo, hi) ==
    IF lo > hi THEN 0
    ELSE IF lo = hi THEN meshes[lo].buffers.vertices
    ELSE SumVertices(meshes, lo, (lo + hi) \div 2)
             + SumVertices(meshes, (lo + hi) \div 2 + 1, hi)

RECURSIVE SumIndices(_, _, _)
SumIndices(meshes, lo, hi) ==
    IF lo > hi THEN 0
    ELSE IF lo = hi THEN meshes[lo].buffers.indices
    ELSE SumIndices(meshes, lo, (lo + hi) \div 2)
             + SumIndices(meshes, (lo + hi) \div 2 + 1, hi)

\* the state the claim gives the draw call of mesh i (from 0): scissor, bind
\* group at its dynamic offset, index and vertex buffer at their byte offsets
ExpectedSettings(a, i) ==
    LET mesh == a.meshes[i + 1]
        clip == Rectangle_snap(Rectangle_mul(mesh.clip_bounds, a.scale_factor))
    IN  { [op |-> "set_scissor_rect", x |-> clip.x, y |-> clip.y,
           width |-> clip.width, height |-> clip.height],
          [op |-> "set_bind_group", index |-> 0, bind_group |-> constants,
           offsets |-> <<i * SizeOfUniforms>>],
          [op |-> "set_index_buffer", buffer |-> index_buffer.raw,
           offset |-> SizeOfU32 * SumIndices(a.meshes, 1, i)],
          [op |-> "set_vertex_buffer", slot |-> 0, buffer |-> vertex_buffer.raw,
           offset |-> SizeOfVertex2D * SumVertices(a.meshes, 1, i)] }

\* C1: a draw of N meshes records exactly N draw_indexed commands, all inside
\* the one render pass of the meshes, and the i-th of them is recorded right
\* after the scissor rectangle of mesh i (clip_bounds * scale_factor, snapped),
\* the uniform bind group at dynamic offset i * size_of(Uniforms) and the index
\* and vertex buffers at the offsets of mesh i were set; it draws the indices
\* 0..index count of mesh i, base vertex 0, one instance.
C1_DrawCallsInOrder ==
    args # None =>
        LET a == Unwrap(args)
            N == Len(a.meshes)
            D == DrawCalls
            B == Begins[1].pos
            E == Ends[1].pos
        IN  /\ Len(D) = N
            /\ \A i \in 0..(N - 1) :
                 LET d == D[i + 1].pos
                     prev == IF i = 0 THEN B + 1 ELSE D[i].pos
                 IN  /\ B < d /\ d < E
                     /\ encoder[d] =
                          [op |-> "draw_indexed",
                           indices |-> <<0, a.meshes[i + 1].buffers.indices>>,
                           base_vertex |-> 0, instances |-> <<0, 1>>]
                     /\ d - prev - 1 = 4
                     /\ Between(prev, d) = ExpectedSettings(a, i)
            /\ encoder[B + 1] = [op |-> "set_pipeline", pipeline |-> "triangle"]

\* C1 witness: three different meshes were drawn at scale factor 3/2, and the
\* second draw call has the scissor (7, 7, 151, 76).
C1_Witness ==
    /\ args # None
    /\ Unwrap(args).meshes = <<MeshA, MeshB, MeshC>>
    /\ Unwrap(args).scale_factor = [num |-> 3, den |-> 2]
    /\ Len(DrawCalls) = 3
    /\ [op |-> "set_scissor_rect", x |-> 7, y |-> 7, width |-> 151,
        height |-> 76] \in Between(DrawCalls[1].pos, DrawCalls[2].pos)

\* C2: in the commands of one Pipeline::draw, the vertex and the index copy of
\* every mesh and the one uniform copy are all recorded, and every copy is
\* recorded before any render pass begins; a pass begins only after the pass
\* before it has ended, so with antialiasing the multisampled pass has ended
\* when the pass of Blit::draw on the caller's target begins.
C2_CopiesThenPasses ==
    args # None =>
        LET a == Unwrap(args)
            N == Len(a.meshes)
            copies == Positions("copy_buffer_to_buffer")
            B == Begins
            E == Ends
        IN  /\ Cardinality(copies) = 2 * N + 1
            /\ \A k \in 1..N :
                 /\ \E c \in copies : encoder[c].src.data = <<"vertices", k>>
                 /\ \E c \in copies : encoder[c].src.data = <<"indices", k>>
            /\ \E c \in copies : encoder[c].src.data[1] = "uniforms"
            /\ Len(B) >= 1
            /\ \A c \in copies : c < B[1].pos
            /\ Len(E) = Len(B)
            /\ \A p \in 1..Len(B) :
                 /\ B[p].pos < E[p].pos
                 /\ p > 1 => E[p - 1].pos < B[p].pos
            /\ blit # None =>
                 /\ Len(B) = 2
                 /\ encoder[B[1].pos].load_op = "Clear"
                 /\ encoder[B[2].pos].attachment = TargetView
                 /\ E[1].pos < B[2].pos

\* C2 witness: with antialiasing, two meshes were drawn: five copies, then the
\* multisampled pass, then the pass on the target.
C2_Witness ==
    /\ args # None
    /\ blit # None
    /\ Len(Unwrap(args).meshes) = 2
    /\ Cardinality(Positions("copy_buffer_to_buffer")) = 5
    /\ Len(Begins) = 2
    /\ Begins[1].pos = 6

\* C3: the antialiasing fixed by Pipeline::new decides the target for good.
\* With it, the pass of the meshes is on the attachment held by the resolver,
\* a texture of (target_width, target_height) with the resolver's sample
\* count, cleared on load and resolved into the resolve view held, and exactly
\* one more pass is recorded, on the caller's target with load op Load.
\* Without it, exactly one pass is recorded, on the caller's target with load
\* op Load and no resolve target, and no texture is ever allocated.
C3_TargetByAntialiasing ==
    /\ [][(blit' = None) <=> (blit = None)]_vars
    /\ [](args # None =>
            LET a == Unwrap(args)
                B == Begins
            IN  IF blit # None
                THEN LET targets == Unwrap(Unwrap(blit).targets)
                         texture == device_textures[targets.attachment.texture]
                     IN  /\ Len(B) = 2
                         /\ encoder[B[1].pos] =
                              [op |-> "begin_render_pass",
                               attachment |-> targets.attachment,
                               resolve_target |-> Some(targets.resolve),
                               load_op |-> "Clear"]
                         /\ texture.width = a.target_width
                         /\ texture.height = a.target_height
                         /\ texture.sample_count = Unwrap(blit).sample_count
                         /\ device_textures[targets.resolve.texture] =
                              [width |-> a.target_width,
                               height |-> a.target_height, sample_count |-> 1]
                         /\ encoder[B[2].pos] =
                              [op |-> "begin_render_pass",
                               attachment |-> TargetView,
                               resolve_target |-> None, load_op |-> "Load"]
                         /\ Positions("draw") # {}
                ELSE /\ Len(B) = 1
                     /\ encoder[B[1].pos] =
                          [op |-> "begin_render_pass", attachment |-> TargetView,
                           resolve_target |-> None, load_op |-> "Load"]
                     /\ Positions("draw") = {}
                     /\ device_textures = <<>>
                     /\ live_textures = {})

\* C3 witness: an antialiased pipeline drew at 800 x 600 and then at 801 x 600;
\* the pass of the meshes is on the second attachment, texture 3.
C3_Witness ==
    /\ args # None
    /\ blit # None
    /\ Unwrap(args).target_width = 801
    /\ Len(device_textures) = 4
    /\ encoder[Begins[1].pos].attachment = [texture |-> 3]
    /\ encoder[Begins[1].pos].load_op = "Clear"

\* C4: the triple recorded for mesh i (from 0) is (the vertex counts of the
\* meshes before i summed, their index counts summed, the index count of mesh
\* i); vertex counts 3, 4, 5 with index counts 3, 6, 9 give the vertex offsets
\* 0, 3, 7 and the index offsets 0, 3, 9.
C4_OffsetsArePrefixSums ==
    args # None =>
        LET meshes == Unwrap(args).meshes
        IN  /\ Len(last_offsets) = Len(meshes)
            /\ \A i \in 0..(Len(meshes) - 1) :
                 last_offsets[i + 1] =
                     <<SumVertices(meshes, 1, i), SumIndices(meshes, 1, i),
                       meshes[i + 1].buffers.indices>>
            /\ meshes = <<MeshA, MeshB, MeshC>> =>
                 last_offsets = << <<0, 0, 3>>, <<3, 3, 6>>, <<7, 9, 9>> >>

\* C4 witness: the three meshes of the example were drawn.
C4_Witness ==
    /\ args # None
    /\ Unwrap(args).meshes = <<MeshA, MeshB, MeshC>>
    /\ Len(last_offsets) = 3
    /\ last_offsets[3][1] = 7

\* C8: a draw of no mesh leaves the three buffers and the device's buffers as
\* they were, and records the (empty) uniform copy, then a render pass of no
\* draw call; with antialiasing that pass clears the multisampled attachment
\* and the pass of Blit::draw on the caller's target follows.
C8_EmptyMeshList ==
    /\ [][(args' # None /\ Unwrap(args').meshes = <<>>) =>
            /\ uniforms_buffer' = uniforms_buffer
            /\ vertex_buffer' = vertex_buffer
            /\ index_buffer' = index_buffer
            /\ device_buffers' = device_buffers]_vars
    /\ [](args # None /\ Unwrap(args).meshes = <<>> =>
            /\ Positions("draw_indexed") = {}
            /\ encoder[1].op = "copy_buffer_to_buffer"
            /\ encoder[1].size = 0
            /\ encoder[2].op = "begin_render_pass"
            /\ encoder[3] = [op |-> "set_pipeline", pipeline |-> "triangle"]
            /\ encoder[4] = [op |-> "end_render_pass"]
            /\ IF blit = None
               THEN /\ Len(encoder) = 4
                    /\ encoder[2].load_op = "Load"
               ELSE /\ encoder[2].load_op = "Clear"
                    /\ encoder[2].attachment
                           = Unwrap(Unwrap(blit).targets).attachment
                    /\ Len(encoder) = 10
                    /\ encoder[5] = [op |-> "begin_render_pass",
                                     attachment |-> TargetView,
                                     resolve_target |-> None,
                                     load_op |-> "Load"]
                    /\ encoder[9] = [op |-> "draw", vertices |-> 6,
                                     instances |-> 1]
                    /\ encoder[10] = [op |-> "end_render_pass"])

\* C8 witness: an antialiased pipeline whose buffers had grown drew no mesh.
C8_Witness ==
    /\ args # None
    /\ Unwrap(args).meshes = <<>>
    /\ blit # None
    /\ Len(device_buffers) > 3
    /\ Len(encoder) = 10

\* the minimum uniform buffer offset alignment the padding of Uniforms is for
UniformAlignment == 256

\* C9: size_of(Uniforms) is 256; the draw call of mesh i (from 0) binds the
\* uniforms at the dynamic offset i * 256, a multiple of the 256-byte
\* alignment, and the one uniform copy puts the record of mesh i, its
\* transform, at that byte offset of the persistent uniform buffer.
C9_DynamicOffsetAligned ==
    /\ SizeOfUniforms = UniformAlignment
    /\ args # None =>
        LET a == Unwrap(args)
            N == Len(a.meshes)
            D == DrawCalls
            copy == encoder[2 * N + 1]
        IN  /\ Len(D) = N
            /\ copy.op = "copy_buffer_to_buffer"
            /\ copy.src.data[1] = "uniforms"
            /\ Len(copy.src.data[2]) = N
            /\ copy.src_offset = 0
            /\ copy.dst = uniforms_buffer.raw
            /\ copy.dst_offset = 0
            /\ copy.size = N * UniformAlignment
            /\ copy.src.size = copy.size
            /\ \A i \in 0..(N - 1) :
                 LET prev == IF i = 0 THEN Begins[1].pos ELSE D[i].pos
                     binds == {c \in Between(prev, D[i + 1].pos) :
                                  c.op = "set_bind_group"}
                 IN  /\ Cardinality(binds) = 1
                     /\ \A c \in binds :
                          /\ c.offsets = <<i * UniformAlignment>>
                          /\ c.offsets[1] % UniformAlignment = 0
                          /\ c.offsets[1] =
                               copy.dst_offset + i * (copy.size \div N)
                     /\ copy.src.data[2][i + 1] =
                          [transform |->
                              Transformation_mul(a.transformation,
                                  Transformation_translate(
                                      a.meshes[i + 1].origin.x,
                                      a.meshes[i + 1].origin.y))]

\* C9 witness: more meshes than the initial uniform capacity were drawn; the
\* last draw call binds the uniforms at offset 100 * 256.
C9_Witness ==
    /\ args # None
    /\ Len(Unwrap(args).meshes) = UNIFORM_BUFFER_SIZE + 1
    /\ Len(DrawCalls) = UNIFORM_BUFFER_SIZE + 1
    /\ \E c \in Between(DrawCalls[UNIFORM_BUFFER_SIZE].pos,
                        DrawCalls[UNIFORM_BUFFER_SIZE + 1].pos) :
          c.op = "set_bind_group" /\ c.offsets = <<25600>>

\* the pixels of the rectangle r (x, y, width, height) that lie in a target
\* of the given size: none iff the rectangle is empty or starts beyond it
MeetsTarget(r, width, height) ==
    /\ r.width > 0 /\ r.height > 0
    /\ r.x < width /\ r.y < height

\* the meshes i (from 0) of the draw a whose clip_bounds, scaled by the scale
\* factor and snapped, lie fully outside the target
OutsideMeshes(a) ==
    {i \in 0..(Len(a.meshes) - 1) :
        ~MeetsTarget(Rectangle_snap(Rectangle_mul(a.meshes[i + 1].clip_bounds,
                                                  a.scale_factor)),
                     a.target_width, a.target_height)}

\* C11: for a mesh whose clip_bounds, scaled by scale_factor and snapped, lie
\* fully outside the target, the draw call is still recorded (draw_indexed
\* over its index count, inside the render pass), exactly one scissor
\* rectangle is set for it, and that rectangle has no pixel in common with
\* the target area.
C11_ScissorOutsideTarget ==
    args # None =>
        LET a == Unwrap(args)
            D == DrawCalls
        IN  /\ Len(D) = Len(a.meshes)
            /\ \A i \in OutsideMeshes(a) :
                 LET d == D[i + 1].pos
                     prev == IF i = 0 THEN Begins[1].pos ELSE D[i].pos
                     scissors == {c \in Between(prev, d) :
                                     c.op = "set_scissor_rect"}
                 IN  /\ Begins[1].pos < d /\ d < Ends[1].pos
                     /\ encoder[d].indices =
                          <<0, a.meshes[i + 1].buffers.indices>>
                     /\ Cardinality(scissors) = 1
                     /\ \A c \in scissors :
                          ~MeetsTarget(c, a.target_width, a.target_height)

\* C11 witness: the third of three meshes is clipped to (900, 700, 50, 50),
\* outside the 800 x 600 target; its draw call was recorded after that
\* scissor rectangle was set.
C11_Witness ==
    /\ args # None
    /\ Unwrap(args).meshes = <<MeshA, MeshB, MeshC>>
    /\ Unwrap(args).target_width = 800
    /\ OutsideMeshes(Unwrap(args)) = {2}
    /\ Len(DrawCalls) = 3
    /\ encoder[DrawCalls[3].pos].indices = <<0, 9>>
    /\ [op |-> "set_scissor_rect", x |-> 900, y |-> 700, width |-> 50,
        height |-> 50] \in Between(DrawCalls[2].pos, DrawCalls[3].pos)

\* the copies recorded from the staging buffers of the vertices, of the
\* indices and of the uniforms, each in recording order
IsVertexCopy(c) == c.op = "copy_buffer_to_buffer" /\ c.src.data[1] = "vertices"
IsIndexCopy(c) == c.op = "copy_buffer_to_buffer" /\ c.src.data[1] = "indices"
IsUniformCopy(c) == c.op = "copy_buffer_to_buffer" /\ c.src.data[1] = "uniforms"
VertexCopies == SelectSeq(encoder, IsVertexCopy)
IndexCopies == SelectSeq(encoder, IsIndexCopy)
UniformCopies == SelectSeq(encoder, IsUniformCopy)

\* the destination range of the copy c lies inside the device buffer it targets
InsideDestination(c) ==
    /\ c.dst \in 1..Len(device_buffers)
    /\ 0 <= c.dst_offset
    /\ c.dst_offset + c.size <= device_buffers[c.dst].size

\* the copies cs target the buffer raw, one per mesh and in mesh order, each
\* inside it, the first at offset 0 and each next one where the one before
\* ends, so that no two ranges overlap
ContiguousInside(cs, raw, N) ==
    /\ Len(cs) = N
    /\ \A k \in 1..N :
         /\ cs[k].dst = raw
         /\ cs[k].src.data[2] = k
         /\ InsideDestination(cs[k])
         /\ cs[k].dst_offset =
              IF k = 1 THEN 0 ELSE cs[k - 1].dst_offset + cs[k - 1].size
    /\ \A j \in 1..N : \A k \in (j + 1)..N :
         cs[j].dst_offset + cs[j].size <= cs[k].dst_offset

\* C12: after a Pipeline::draw the uniform capacity is at least the number of
\* meshes, the vertex capacity at least the total number of vertices and the
\* index capacity at least the total number of indices; every recorded
\* vertex, index and uniform copy targets the persistent buffer of its kind
\* and its destination range lies inside that buffer; the vertex (and the
\* index) ranges of the meshes follow one another without gap or overlap.
C12_CopiesInsideBuffers ==
    args # None =>
        LET a == Unwrap(args)
            N == Len(a.meshes)
        IN  /\ uniforms_buffer.size >= N
            /\ vertex_buffer.size >= SumVertices(a.meshes, 1, N)
            /\ index_buffer.size >= SumIndices(a.meshes, 1, N)
            /\ ContiguousInside(VertexCopies, vertex_buffer.raw, N)
            /\ ContiguousInside(IndexCopies, index_buffer.raw, N)
            /\ \A k \in 1..N :
                 /\ VertexCopies[k].size =
                      SizeOfVertex2D * a.meshes[k].buffers.vertices
                 /\ IndexCopies[k].size =
                      SizeOfU32 * a.meshes[k].buffers.indices
            /\ Len(UniformCopies) = 1
            /\ UniformCopies[1].dst = uniforms_buffer.raw
            /\ UniformCopies[1].dst_offset = 0
            /\ UniformCopies[1].size = SizeOfUniforms * N
            /\ InsideDestination(UniformCopies[1])

\* C12 witness: two meshes of 6000 vertices and one of 4 were drawn, which is
\* more than the initial vertex capacity; the vertex buffer was reallocated
\* for 12004 vertices and the third vertex copy lands at byte 24 * 6004.
C12_Witness ==
    /\ args # None
    /\ Unwrap(args).meshes = <<MeshBig, MeshB, MeshBig>>
    /\ vertex_buffer.size = 12004
    /\ vertex_buffer.raw > 3
    /\ Len(VertexCopies) = 3
    /\ VertexCopies[3].dst = vertex_buffer.raw
    /\ VertexCopies[3].dst_offset = 144096
    /\ VertexCopies[3].dst_offset + VertexCopies[3].size
         = device_buffers[vertex_buffer.raw].size

\* the set_bind_group commands recorded inside the render pass of the meshes
MeshBinds ==
    {encoder[k] : k \in {j \in (Begins[1].pos + 1)..(Ends[1].pos - 1) :
                            encoder[j].op = "set_bind_group"}}

\* C13: after any sequence of Pipeline::draw calls, the uniform bind group
\* bound in the draw calls references the device buffer that is the
\* persistent uniform buffer, the one this draw copied the transforms into,
\* and for every draw call the dynamic offset plus the 256 bytes of the
\* binding end inside that bound buffer.
C13_BoundBufferIsUniformBuffer ==
    args # None =>
        \A c \in MeshBinds :
            LET bound == c.bind_group.resource
            IN  /\ Len(UniformCopies) = 1
                /\ bound.buffer = uniforms_buffer.raw
                /\ bound.buffer = UniformCopies[1].dst
                /\ bound.offset + c.offsets[1] + bound.size
                     <= device_buffers[bound.buffer].size

\* C14: Blit::draw on a Blit whose targets are absent (a fresh Blit, or the
\* pipeline's Blit with its targets taken away) reaches the unwrap on None
\* and panics; after any sequence of Pipeline::draw calls no unwrap has
\* failed, and with antialiasing every draw has left the targets present, at
\* the size of that draw, has rendered the meshes into their attachment and
\* has then recorded the composition pass, which binds the bind group of
\* those targets and draws 6 vertices.
C14_UnwrapNeverFails ==
    /\ \A s \in SampleCounts :
         Blit_draw(Blit_new(s), <<>>, TargetView).panicked
    /\ blit # None =>
         Blit_draw([Unwrap(blit) EXCEPT !.targets = None], <<>>,
                   TargetView).panicked
    /\ ~panicked
    /\ (args # None /\ blit # None) =>
         LET a == Unwrap(args)
             self == Unwrap(blit)
         IN  /\ self.targets # None
             /\ Unwrap(self.targets).width = a.target_width
             /\ Unwrap(self.targets).height = a.target_height
             /\ Len(Begins) = 2 /\ Len(Ends) = 2
             /\ encoder[Begins[1].pos].attachment
                  = Unwrap(self.targets).attachment
             /\ Ends[1].pos < Begins[2].pos
             /\ \E k \in (Begins[2].pos + 1)..(Ends[2].pos - 1) :
                  /\ encoder[k] = [op |-> "set_bind_group", index |-> 1,
                                   bind_group |-> Unwrap(self.targets).bind_group,
                                   offsets |-> <<>>]
                  /\ encoder[k + 1] = [op |-> "draw", vertices |-> 6,
                                       instances |-> 1]

\* C14 witness: an antialiased pipeline has drawn twice at different sizes, so
\* that Blit::targets found the targets absent once and present once; the
\* composition pass was recorded and nothing panicked.
C14_Witness ==
    /\ args # None /\ blit # None
    /\ ~panicked
    /\ Len(device_textures) = 4
    /\ Unwrap(Unwrap(blit).targets).resolve.texture = 4
    /\ Len(Begins) = 2
    /\ encoder[Ends[2].pos - 1].op = "draw"

\* the Blit::targets calls made on the stand-alone Blit, in order
IsTargetsCall(c) == c.op = "targets"
TargetsCalls == SelectSeq(calls, IsTargetsCall)

\* C15: after any sequence of Blit::targets calls (Blit::draw calls between
\* them or not), the stored width and height are those of the most recent
\* targets call; the attachment and the resolve view held are two different
\* live textures allocated at that size, the attachment multisampled and the
\* resolve single-sampled; they are the views the last call returned, the
\* second of which the multisampled pass takes as its resolve target; and
\* the texture bind group stored, which a Blit::draw after the call binds at
\* index 1, references that resolve view, a view still owned and not one of
\* a replaced pair.
C15_TargetsAreCurrent ==
    (blit # None /\ Len(TargetsCalls) > 0) =>
        LET self == Unwrap(blit)
            last == TargetsCalls[Len(TargetsCalls)]
            t == Unwrap(self.targets)
        IN  /\ self.targets # None
            /\ t.width = last.width /\ t.height = last.height
            /\ t.attachment.texture \in 1..Len(device_textures)
            /\ t.resolve.texture \in 1..Len(device_textures)
            /\ device_textures[t.attachment.texture] =
                 [width |-> last.width, height |-> last.height,
                  sample_count |-> self.sample_count]
            /\ device_textures[t.resolve.texture] =
                 [width |-> last.width, height |-> last.height,
                  sample_count |-> 1]
            /\ t.attachment # t.resolve
            /\ live_textures = {t.attachment.texture, t.resolve.texture}
            /\ ret = Some(<<t.attachment, t.resolve>>)
            /\ t.bind_group.resource = t.resolve
            /\ t.bind_group.resource.texture \in live_textures
            /\ Last(calls).op = "draw" =>
                 /\ ~panicked
                 /\ \E k \in 1..Len(encoder) :
                      encoder[k] = [op |-> "set_bind_group", index |-> 1,
                                    bind_group |-> [layout |-> "texture_layout",
                                                    resource |-> Unwrap(ret)[2]],
                                    offsets |-> <<>>]

\* C15 witness: targets was called at 800 x 600 and then at 800 x 601, which
\* replaced the first pair (textures 1 and 2) by textures 3 and 4, and the
\* Blit::draw after it bound the bind group of resolve view 4.
C15_Witness ==
    /\ blit # None
    /\ calls = << [op |-> "targets", width |-> 800, height |-> 600],
                  [op |-> "targets", width |-> 800, height |-> 601],
                  [op |-> "draw"] >>
    /\ Len(device_textures) = 4
    /\ live_textures = {3, 4}
    /\ Unwrap(Unwrap(blit).targets).bind_group.resource = [texture |-> 4]
    /\ \E k \in 1..Len(encoder) :
          /\ encoder[k].op = "set_bind_group"
          /\ encoder[k].index = 1
          /\ encoder[k].bind_group.resource = [texture |-> 4]

====
